---- MODULE Spec2Model ----
(***************************************************************************)
(* Model of neuroknow.py: CognitiveProfile and CognitiveFingerprinter      *)
(* (the profile registry, analyze_initial_interaction, update_from_errors, *)
(* assess_attention_pattern, assess_modality_strengths and                 *)
(* get_optimal_modality_mix).                                              *)
(*                                                                         *)
(* Scores are floats in the source; the model keeps them in tenths, so     *)
(* 0.8 is 8 and 0.5 is 5.  A Python dict is a sequence of [k, v] entries   *)
(* in insertion order.  np.mean is a rational [num, den].                  *)
(***************************************************************************)
EXTENDS Integers, Sequences, FiniteSets, TLC

\* profiles   : self.profiles, user_id -> CognitiveProfile
\* last       : the last call made: operation, arguments, exception, return value
\* calibrated : the user_ids whose stored profile object has had an
\*              update_from_errors applied since it was constructed
\* pc, locals : per calling thread, the statement of update_from_errors it is at
\*              and its local variables
VARIABLES profiles, last, calibrated, pc, locals

vars == <<profiles, last, calibrated, pc, locals>>

(* ------------------------------ bounds -------------------------------- *)

\* longest focus_durations sequence of a diagnostic record
MaxLen == 2

\* longest error-log sequence handed to update_from_errors
MaxLogs == 2

(* --------------------------- enumerations ----------------------------- *)

\* class LearningModality, in definition order
LearningModality == <<"visual", "kinesthetic", "auditory", "logical">>

Modalities == {LearningModality[i] : i \in 1..Len(LearningModality)}

\* class ErrorType
ErrorType == {"conceptual_gap", "procedural_error", "attention_lapse", "transfer_failure"}

None == "None"

(* ------------------------------ inputs -------------------------------- *)

Users == {"u1", "u2"}

Durations == {10, 14, 15, 16, 40, 41, 50}

Timestamps == {1, 7}

Concepts == {"fractions", "decimals"}

\* the modality of instruction a log's student_approach text names, if any
Approaches == {"visual", "logical", "other"}

RECURSIVE SeqsUpTo(_, _)
SeqsUpTo(S, n) ==
    IF n = 0 THEN {<<>>}
    ELSE LET shorter == SeqsUpTo(S, n - 1)
         IN  shorter \cup {Append(s, x) : s \in {t \in shorter : Len(t) = n - 1}, x \in S}

\* diagnostic_data: Dict with an optional 'focus_durations' entry
DiagnosticsOver(durations) ==
    [has_focus : {TRUE}, focus_durations : SeqsUpTo(durations, MaxLen),
     prefers_abstract : BOOLEAN]
    \cup [has_focus : {FALSE}, focus_durations : {<<>>}, prefers_abstract : BOOLEAN]

Diagnostics == DiagnosticsOver(Durations)

\* the records createProfile is called with: one or two per attention pattern
ProfileDiagnostics == DiagnosticsOver({10, 50})

Chronological(logs) ==
    \A i \in 1..Len(logs) - 1 : logs[i].timestamp <= logs[i + 1].timestamp

\* List[ErrorLog], in chronological order
ErrorLogListsOver(timestamps, concepts, error_types, approaches) ==
    {logs \in SeqsUpTo([timestamp : timestamps, concept : concepts,
                        error_type : error_types, student_approach : approaches],
                       MaxLogs) : Chronological(logs)}

ErrorLogLists == ErrorLogListsOver(Timestamps, Concepts, {"conceptual_gap"}, Approaches)

\* the smaller input sets of the two-user and two-caller specifications
RegistryLogLists ==
    ErrorLogListsOver({1}, {"fractions"}, {"conceptual_gap", "attention_lapse"},
                      {"logical", "other"})

ConcurrentLogLists ==
    ErrorLogListsOver({1, 7}, {"fractions"}, {"procedural_error"}, {"visual", "logical"})

(* ------------------------------ dicts --------------------------------- *)

DictKeys(d) == [i \in 1..Len(d) |-> d[i].k]

DictHas(d, key) == \E i \in 1..Len(d) : d[i].k = key

DictGet(d, key) == d[CHOOSE i \in 1..Len(d) : d[i].k = key].v

\* d[key] = value: an existing key keeps its position, a new key is appended
DictSet(d, key, value) ==
    IF DictHas(d, key)
    THEN [i \in 1..Len(d) |-> IF d[i].k = key THEN [k |-> key, v |-> value] ELSE d[i]]
    ELSE Append(d, [k |-> key, v |-> value])

(* ------------------------- CognitiveProfile --------------------------- *)

RECURSIVE InsertDescStrict(_, _, _)
\* the sort of an ascending sort read backwards: equal strengths change places
InsertDescStrict(sorted, m, d) ==
    IF sorted = <<>> THEN <<m>>
    ELSE IF DictGet(d, Head(sorted)) > DictGet(d, m)
         THEN <<Head(sorted)>> \o InsertDescStrict(Tail(sorted), m, d)
         ELSE <<m>> \o sorted

RECURSIVE InsertDesc(_, _, _)
\* insert m into the sorted list after every element whose strength is >= its own
InsertDesc(sorted, m, d) ==
    IF sorted = <<>> THEN <<m>>
    ELSE IF DictGet(d, Head(sorted)) >= DictGet(d, m)
         THEN <<Head(sorted)>> \o InsertDesc(Tail(sorted), m, d)
         ELSE <<m>> \o sorted

RECURSIVE SortedDesc(_, _)
\* sorted(keys, key=strength, reverse=True): stable, equal keys keep their order
SortedDesc(keys, d) ==
    IF keys = <<>> THEN <<>>
    ELSE InsertDesc(SortedDesc(SubSeq(keys, 1, Len(keys) - 1), d), keys[Len(keys)], d)

get_optimal_modality_mix(profile) ==
    SortedDesc(DictKeys(profile.modality_strengths), profile.modality_strengths)

(* ----------------------- CognitiveFingerprinter ----------------------- *)

RECURSIVE Sum(_)
Sum(s) == IF s = <<>> THEN 0 ELSE Head(s) + Sum(Tail(s))

\* np.mean(focus_durations)
Mean(s) == [num |-> Sum(s), den |-> Len(s)]

\* the thresholds taken inclusively
assess_attention_pattern_inclusive(data) ==
    LET focus_durations == IF data.has_focus THEN data.focus_durations ELSE <<>>
        avg_focus == IF focus_durations # <<>> THEN Mean(focus_durations)
                     ELSE [num |-> 25, den |-> 1]
    IN  IF avg_focus.num <= 15 * avg_focus.den THEN "sprinter"
        ELSE IF avg_focus.num >= 40 * avg_focus.den THEN "marathon"
        ELSE "cyclical"

assess_attention_pattern(data) ==
    LET focus_durations == IF data.has_focus THEN data.focus_durations ELSE <<>>
        avg_focus == IF focus_durations # <<>> THEN Mean(focus_durations)
                     ELSE [num |-> 25, den |-> 1]
    IN  IF avg_focus.num < 15 * avg_focus.den THEN "sprinter"
        ELSE IF avg_focus.num > 40 * avg_focus.den THEN "marathon"
        ELSE "cyclical"

assess_modality_strengths(data) ==
    << [k |-> "visual", v |-> 8], [k |-> "kinesthetic", v |-> 6],
       [k |-> "auditory", v |-> 4], [k |-> "logical", v |-> 9] >>

\* _assess_abstraction_pref is not in the source file
assess_abstraction_pref(data) ==
    IF data.prefers_abstract THEN "abstract_first" ELSE "concrete_first"

Clamp(x) == IF x < 0 THEN 0 ELSE IF x > 10 THEN 10 ELSE x

\* gaps between an error and the next error on the same concept
RepeatGaps(error_logs) ==
    {error_logs[j].timestamp - error_logs[i].timestamp :
        <<i, j>> \in {p \in (1..Len(error_logs)) \X (1..Len(error_logs)) :
                        /\ p[1] < p[2]
                        /\ error_logs[p[1]].concept = error_logs[p[2]].concept}}

SetMin(S) == CHOOSE x \in S : \A y \in S : x <= y

\* _analyze_error_recovery is not in the source file: it sees the logs only
analyze_error_recovery(error_logs) ==
    LET gaps == RepeatGaps(error_logs)
    IN  [recovery_speed |-> IF gaps = {} THEN 5 ELSE Clamp(10 - 2 * SetMin(gaps))]

\* an error is resolved when no later log repeats its concept
Resolved(error_logs, i) ==
    \A j \in (i + 1)..Len(error_logs) : error_logs[j].concept # error_logs[i].concept

LogsUsing(error_logs, m) ==
    {i \in 1..Len(error_logs) : error_logs[i].student_approach = m}

SetMax(S) == CHOOSE x \in S : \A y \in S : x >= y

\* 1.0 when the latest error worked on through modality m was resolved, else 0.0
Effectiveness(error_logs, m) ==
    IF Resolved(error_logs, SetMax(LogsUsing(error_logs, m))) THEN Clamp(10) ELSE Clamp(0)

RECURSIVE PatternsFrom(_, _)
PatternsFrom(error_logs, ms) ==
    IF ms = <<>> THEN <<>>
    ELSE LET rest == PatternsFrom(error_logs, Tail(ms))
         IN  IF LogsUsing(error_logs, Head(ms)) = {} THEN rest
             ELSE <<[k |-> Head(ms), v |-> Effectiveness(error_logs, Head(ms))]>> \o rest

\* _extract_success_patterns is not in the source file
extract_success_patterns(error_logs) == PatternsFrom(error_logs, LearningModality)

\* entries written under a new key (the modality's value string, not the Enum member)
ApplyPatternsNewKeys(strengths, success_patterns) == strengths \o success_patterns

\* every modality the logs say nothing about is written as 0.0
ApplyPatternsAll(strengths, success_patterns) ==
    [i \in 1..Len(strengths) |->
        [k |-> strengths[i].k,
         v |-> IF DictHas(success_patterns, strengths[i].k)
               THEN DictGet(success_patterns, strengths[i].k) ELSE 0]]

RECURSIVE ApplyPatterns(_, _)
\* for modality, effectiveness in success_patterns.items(): strengths[modality] = effectiveness
ApplyPatterns(strengths, success_patterns) ==
    IF success_patterns = <<>> THEN strengths
    ELSE ApplyPatterns(DictSet(strengths, Head(success_patterns).k, Head(success_patterns).v),
                       Tail(success_patterns))

(* ------------------------------ state --------------------------------- *)

\* the exception profile = self.profiles[user_id] raises for an unknown user_id
UnknownUserError == "KeyError"

\* the last call: its operation, arguments (data, or the number of logs), outcome
NoCall == [op |-> "none", user_id |-> None, data |-> None, n_logs |-> 0,
           raised |-> None, returned |-> None, success_patterns |-> <<>>]

Threads == {1, 2}

Idle == [t \in Threads |-> "idle"]

NoLocals == [t \in Threads |-> None]

\* __init__: self.profiles = {}
Init ==
    /\ profiles = <<>>
    /\ last = NoCall
    /\ calibrated = {}
    /\ pc = Idle
    /\ locals = NoLocals

(* ---------------------------- operations ------------------------------ *)

\* the two priors seeded at 0.0
NewProfileUnseeded(user_id, diagnostic_data) ==
    [user_id                |-> user_id,
     attention_pattern      |-> assess_attention_pattern(diagnostic_data),
     abstraction_preference |-> assess_abstraction_pref(diagnostic_data),
     modality_strengths     |-> assess_modality_strengths(diagnostic_data),
     error_recovery_speed   |-> 0,
     transfer_capacity      |-> 0]

NewProfile(user_id, diagnostic_data) ==
    [user_id                |-> user_id,
     attention_pattern      |-> assess_attention_pattern(diagnostic_data),
     abstraction_preference |-> assess_abstraction_pref(diagnostic_data),
     modality_strengths     |-> assess_modality_strengths(diagnostic_data),
     error_recovery_speed   |-> 5,
     transfer_capacity      |-> 5]

\* self.profiles[user_id] = profile
Store(registry, user_id, profile) ==
    [u \in DOMAIN registry \cup {user_id} |->
        IF u = user_id THEN profile ELSE registry[u]]

analyze_initial_interaction(user_id, diagnostic_data) ==
    LET profile == NewProfile(user_id, diagnostic_data)
    IN  /\ profiles' = Store(profiles, user_id, profile)
        /\ calibrated' = calibrated \ {user_id}
        /\ last' = [NoCall EXCEPT !.op = "analyze_initial_interaction",
                                  !.user_id = user_id, !.returned = profile]
        /\ UNCHANGED <<pc, locals>>

UpdatedProfile(profile, error_logs) ==
    LET recovery_data    == analyze_error_recovery(error_logs)
        success_patterns == extract_success_patterns(error_logs)
    IN  [profile EXCEPT
            !.error_recovery_speed = recovery_data.recovery_speed,
            !.modality_strengths = ApplyPatterns(@, success_patterns)]

\* self.profiles.setdefault(user_id, <blank profile>) in place of the lookup
update_from_errors_setdefault(user_id, error_logs) ==
    LET blank == [has_focus |-> FALSE, focus_durations |-> <<>>, prefers_abstract |-> FALSE]
        profile == IF user_id \in DOMAIN profiles THEN profiles[user_id]
                   ELSE NewProfile(user_id, blank)
    IN  /\ profiles' = Store(profiles, user_id, UpdatedProfile(profile, error_logs))
        /\ calibrated' = calibrated \cup {user_id}
        /\ last' = [NoCall EXCEPT !.op = "update_from_errors", !.user_id = user_id,
                                  !.n_logs = Len(error_logs),
                                  !.success_patterns = extract_success_patterns(error_logs)]
        /\ UNCHANGED <<pc, locals>>

update_from_errors(user_id, error_logs) ==
    IF user_id \notin DOMAIN profiles
    THEN /\ last' = [NoCall EXCEPT !.op = "update_from_errors", !.user_id = user_id,
                                   !.n_logs = Len(error_logs),
                                   !.raised = UnknownUserError]
         /\ UNCHANGED <<profiles, calibrated, pc, locals>>
    ELSE /\ profiles' = [profiles EXCEPT ![user_id] = UpdatedProfile(@, error_logs)]
         /\ calibrated' = calibrated \cup {user_id}
         /\ last' = [NoCall EXCEPT !.op = "update_from_errors", !.user_id = user_id,
                                   !.n_logs = Len(error_logs),
                                   !.success_patterns = extract_success_patterns(error_logs)]
         /\ UNCHANGED <<pc, locals>>

\* a call of profile.get_optimal_modality_mix() on a registered profile
GetOptimalModalityMix(user_id) ==
    /\ user_id \in DOMAIN profiles
    /\ last' = [NoCall EXCEPT !.op = "get_optimal_modality_mix", !.user_id = user_id,
                              !.returned = get_optimal_modality_mix(profiles[user_id])]
    /\ UNCHANGED <<profiles, calibrated, pc, locals>>

\* a call of assess_attention_pattern(data)
AssessAttentionPattern(data) ==
    /\ last' = [NoCall EXCEPT !.op = "assess_attention_pattern", !.data = data,
                              !.returned = assess_attention_pattern(data)]
    /\ UNCHANGED <<profiles, calibrated, pc, locals>>

(* ------------- update_from_errors, statement by statement -------------- *)

\* two callers of update_from_errors("u1", ...) on threads; the source takes no lock.
\* `last` keeps the createProfile call that registered the profile.

\* line 80: profile = self.profiles[user_id], a reference to the stored object
CallUpdate(t, error_logs) ==
    /\ pc[t] = "idle"
    /\ "u1" \in DOMAIN profiles
    /\ locals' = [locals EXCEPT ![t] = [user_id |-> "u1", error_logs |-> error_logs,
                                        items |-> <<>>]]
    /\ pc' = [pc EXCEPT ![t] = "line83"]
    /\ UNCHANGED <<profiles, last, calibrated>>

\* lines 83-84: profile.error_recovery_speed = recovery_data['recovery_speed']
SetRecoverySpeed(t) ==
    /\ pc[t] = "line83"
    /\ profiles' = [profiles EXCEPT ![locals[t].user_id].error_recovery_speed =
                        analyze_error_recovery(locals[t].error_logs).recovery_speed]
    /\ pc' = [pc EXCEPT ![t] = "line87"]
    /\ UNCHANGED <<last, calibrated, locals>>

\* line 87: success_patterns = self._extract_success_patterns(error_logs)
ExtractPatterns(t) ==
    /\ pc[t] = "line87"
    /\ locals' = [locals EXCEPT ![t].items = extract_success_patterns(locals[t].error_logs)]
    /\ pc' = [pc EXCEPT ![t] = "line88"]
    /\ UNCHANGED <<profiles, last, calibrated>>

\* lines 88-89: one turn of the loop
SetStrength(t) ==
    /\ pc[t] = "line88"
    /\ locals[t].items # <<>>
    /\ profiles' = [profiles EXCEPT ![locals[t].user_id].modality_strengths =
                        DictSet(@, Head(locals[t].items).k, Head(locals[t].items).v)]
    /\ locals' = [locals EXCEPT ![t].items = Tail(@)]
    /\ UNCHANGED <<last, calibrated, pc>>

\* the loop is exhausted and the call returns
ReturnUpdate(t) ==
    /\ pc[t] = "line88"
    /\ locals[t].items = <<>>
    /\ pc' = [pc EXCEPT ![t] = "done"]
    /\ calibrated' = calibrated \cup {locals[t].user_id}
    /\ UNCHANGED <<profiles, last, locals>>

(* -------------------------- specifications ---------------------------- *)

\* one user, the full error-log inputs
Next ==
    \/ \E diagnostic_data \in ProfileDiagnostics :
          analyze_initial_interaction("u1", diagnostic_data)
    \/ \E error_logs \in ErrorLogLists : update_from_errors("u1", error_logs)
    \/ GetOptimalModalityMix("u1")

Spec == Init /\ [][Next]_vars

\* two users, smaller inputs
NextRegistry ==
    \/ \E user_id \in Users, diagnostic_data \in ProfileDiagnostics :
          analyze_initial_interaction(user_id, diagnostic_data)
    \/ \E user_id \in Users, error_logs \in RegistryLogLists :
          update_from_errors(user_id, error_logs)

SpecRegistry == Init /\ [][NextRegistry]_vars

\* the attention classifier alone, over every diagnostic record
NextAttention == \E data \in Diagnostics : AssessAttentionPattern(data)

SpecAttention == Init /\ [][NextAttention]_vars

\* the state after analyze_initial_interaction("u1", ...), both callers yet to call
InitConcurrent ==
    /\ \E diagnostic_data \in ProfileDiagnostics :
          /\ profiles = Store(<<>>, "u1", NewProfile("u1", diagnostic_data))
          /\ last = [NoCall EXCEPT !.op = "analyze_initial_interaction", !.user_id = "u1",
                                   !.returned = NewProfile("u1", diagnostic_data)]
    /\ calibrated = {}
    /\ pc = Idle
    /\ locals = NoLocals

NextConcurrent ==
    \E t \in Threads :
        \/ \E error_logs \in ConcurrentLogLists : CallUpdate(t, error_logs)
        \/ SetRecoverySpeed(t)
        \/ ExtractPatterns(t)
        \/ SetStrength(t)
        \/ ReturnUpdate(t)

SpecConcurrent == InitConcurrent /\ [][NextConcurrent]_vars

(* ---------------------------- properties ------------------------------ *)

Created(user_id) ==
    last'.op = "analyze_initial_interaction" /\ last'.user_id = user_id

Updated(user_id) ==
    last'.op = "update_from_errors" /\ last'.user_id = user_id

StrengthOf(profile, m) ==
    IF DictHas(profile.modality_strengths, m) THEN DictGet(profile.modality_strengths, m)
    ELSE None

\* C1: a second createProfile for a registered user_id fails, and the registered
\* profile is the same before and after the call.
C1_SecondCreateFails ==
    [][\A u \in Users :
          (u \in DOMAIN profiles /\ Created(u))
              => (last'.raised # None /\ profiles'[u] = profiles[u])]_vars

\* C2: updateFromErrors for a user_id with no profile fails with the unknown-user
\* error and leaves the registry as it was: no entry is created, none is modified.
C2_UnknownUserUpdateFails ==
    [][\A u \in Users :
          (u \notin DOMAIN profiles /\ Updated(u))
              => (last'.raised = UnknownUserError /\ profiles' = profiles)]_vars

C2_Witness ==
    /\ last.op = "update_from_errors"
    /\ last.raised = UnknownUserError
    /\ last.n_logs > 0
    /\ last.user_id \notin DOMAIN profiles
    /\ DOMAIN profiles # {}

\* C3: classifyAttentionPattern returns sprinter exactly when the mean is < 15,
\* marathon exactly when it is > 40 and cyclical otherwise (15 and 40 included);
\* an empty or absent focus_durations is cyclical.
C3_AttentionThresholds ==
    last.op = "assess_attention_pattern" =>
        LET fd == IF last.data.has_focus THEN last.data.focus_durations ELSE <<>>
            n  == Len(fd)
            s  == Sum(fd)
        IN  IF n = 0 THEN last.returned = "cyclical"
            ELSE /\ (last.returned = "sprinter") <=> (s < 15 * n)
                 /\ (last.returned = "marathon") <=> (s > 40 * n)
                 /\ (last.returned = "cyclical") <=> (15 * n <= s /\ s <= 40 * n)

C3_Witness ==
    /\ last.op = "assess_attention_pattern"
    /\ last.data.has_focus
    /\ Len(last.data.focus_durations) = 2
    /\ Sum(last.data.focus_durations) = 15 * 2
    /\ last.data.focus_durations[1] # last.data.focus_durations[2]
    /\ last.returned = "cyclical"

CanonicalIndex(m) == CHOOSE i \in 1..Len(LearningModality) : LearningModality[i] = m

\* C4: getOptimalModalityMix returns each of the four modalities exactly once, in
\* non-increasing order of strength, equal strengths in the canonical order
\* (visual, kinesthetic, auditory, logical).
C4_MixSortedWithCanonicalTies ==
    last.op = "get_optimal_modality_mix" =>
        LET mix == last.returned
            p   == profiles[last.user_id]
        IN  /\ Len(mix) = 4
            /\ {mix[i] : i \in 1..Len(mix)} = Modalities
            /\ \A i, j \in 1..Len(mix) :
                  i < j =>
                      /\ StrengthOf(p, mix[i]) >= StrengthOf(p, mix[j])
                      /\ StrengthOf(p, mix[i]) = StrengthOf(p, mix[j])
                            => CanonicalIndex(mix[i]) < CanonicalIndex(mix[j])

C4_Witness ==
    /\ last.op = "get_optimal_modality_mix"
    /\ StrengthOf(profiles[last.user_id], "visual") = 10
    /\ StrengthOf(profiles[last.user_id], "logical") = 10
    /\ last.returned = <<"visual", "logical", "kinesthetic", "auditory">>

\* C5: updateFromErrors with an empty error list leaves every field of the stored
\* profile unchanged.
C5_EmptyUpdateChangesNothing ==
    [][\A u \in Users :
          (u \in DOMAIN profiles /\ Updated(u) /\ last'.n_logs = 0)
              => profiles'[u] = profiles[u]]_vars

C7_CalibratedForever ==
    [][\A u \in Users : u \in calibrated => u \in calibrated']_vars

\* C8: two concurrent updateFromErrors calls for one user_id leave the profile that
\* running the two calls one after the other, in some order, leaves.
C8_ConcurrentUpdatesSerialize ==
    (pc[1] = "done" /\ pc[2] = "done") =>
        LET before == last.returned
            first  == locals[1].error_logs
            second == locals[2].error_logs
        IN  profiles["u1"] \in
                {UpdatedProfile(UpdatedProfile(before, first), second),
                 UpdatedProfile(UpdatedProfile(before, second), first)}

\* C9: a successful updateFromErrors sets the strength of each modality with new
\* evidence to the derived value and leaves every other strength as it was.
C9_UpdateFrame ==
    [][\A u \in Users :
          (u \in DOMAIN profiles /\ Updated(u))
              => \A m \in Modalities :
                    StrengthOf(profiles'[u], m) =
                        IF DictHas(last'.success_patterns, m)
                        THEN DictGet(last'.success_patterns, m)
                        ELSE StrengthOf(profiles[u], m)]_vars

C9_Witness ==
    /\ last.op = "update_from_errors"
    /\ last.raised = None
    /\ DictHas(last.success_patterns, "logical")
    /\ ~DictHas(last.success_patterns, "visual")
    /\ StrengthOf(profiles[last.user_id], "logical") = 0
    /\ StrengthOf(profiles[last.user_id], "visual") = 10

\* C10: createProfile for an unregistered user_id registers, under that key, the
\* profile it returns, with user_id the key and both priors 0.5; the priors stay
\* 0.5 until an updateFromErrors for that user_id is applied.
C10_CreateSeedsPriors ==
    [][\A u \in Users :
          /\ (u \notin DOMAIN profiles /\ Created(u))
                => /\ last'.raised = None
                   /\ u \in DOMAIN profiles'
                   /\ last'.returned = profiles'[u]
                   /\ profiles'[u].user_id = u
                   /\ profiles'[u].error_recovery_speed = 5
                   /\ profiles'[u].transfer_capacity = 5
          /\ (/\ u \in DOMAIN profiles
              /\ profiles[u].error_recovery_speed = 5
              /\ profiles[u].transfer_capacity = 5
              /\ ~Updated(u))
                => /\ profiles'[u].error_recovery_speed = 5
                   /\ profiles'[u].transfer_capacity = 5]_vars

C10_Witness ==
    /\ last.op = "analyze_initial_interaction"
    /\ last.user_id = "u2"
    /\ last.returned = profiles["u2"]
    /\ "u1" \in calibrated
    /\ profiles["u1"].error_recovery_speed = 10

====
